---- MODULE Spec2Model ----
(***************************************************************************)
(* A model of the PDF table processor (processor.py): header              *)
(* uniquification, table-structure detection, table cleaning, the          *)
(* per-table dataset construction and cross-table merge of                *)
(* tables_to_dataframe, and the formatting of page text; and of the        *)
(* upload, process and download handlers of the application (main.py).     *)
(*                                                                         *)
(* Text is modelled as a sequence of one-character strings, so that        *)
(* str.strip and the "_<n>" suffixing act on characters.  Python's None    *)
(* (which pandas treats as a missing value) is the cell NONE.              *)
(*                                                                         *)
(* A local variable of the source that is read several times is bound as   *)
(*     CHOOSE out \in {F(v) : v \in {e}} : TRUE                             *)
(* which is F(e) with e evaluated once.                                    *)
(***************************************************************************)
EXTENDS Integers, Sequences, FiniteSets, TLC

VARIABLES
    columns,      \* _make_unique_columns: the header cells passed in
    result,       \* _make_unique_columns: the list returned
    cols_pc,      \* "call" before the call, "done" after it
    table,        \* _clean_table: the grid passed in
    structure,    \* what _find_table_structure returned for table
    cleaned,      \* _clean_table(table)
    recleaned,    \* _clean_table(cleaned)
    kept_cols,    \* the cols_to_keep _clean_table(table) projected onto
    clean_pc,     \* "call", "cleaned", "recleaned"
    doc,          \* tables_to_dataframe: the grids the engine extracted
    next_table,   \* index in doc of the grid the loop handles next
    all_tables,   \* the per-table datasets collected so far
    trail,        \* per handled grid, how its loop body ended
    merged,       \* what the call returned (a dataset), or RAISED
    df_pc,        \* "loop", "returned", "raised"
    text,         \* _format_text: the raw text of the page
    page_num,     \* _format_text: the page's number
    total_pages,  \* _format_text: the number of pages
    formatted,    \* _format_text: the string returned
    text_pc,      \* "call" before the call, "done" after it
    uploaded_file_bytes,  \* main.py: the file whose bytes are stored, or None
    uploaded_filename,    \* main.py: the file whose name is stored, or None
    processed_dataframe,  \* main.py: the file the stored dataset is of, or None
    processed_text,       \* main.py: the file the stored text is of, or None
    download_button,      \* whether the download button is visible
    process_button,       \* whether the process button is enabled
    reading,      \* the handle_upload calls suspended at `await e.file.read()`
    running,      \* the process_pdf calls suspended at `await run.cpu_bound`
    delivered     \* what download_file handed to ui.download last

cols_vars  == <<columns, result, cols_pc>>
clean_vars == <<table, structure, cleaned, recleaned, kept_cols, clean_pc>>
df_vars    == <<doc, next_table, all_tables, trail, merged, df_pc>>
text_vars  == <<text, page_num, total_pages, formatted, text_pc>>
app_vars   == <<uploaded_file_bytes, uploaded_filename, processed_dataframe,
                processed_text, download_button, process_button, reading,
                running, delivered>>
vars       == <<cols_vars, clean_vars, df_vars, text_vars, app_vars>>

----------------------------------------------------------------------------
(* Bounds of the model *)

\* longest header list handed to _make_unique_columns
MaxHeader == 3

\* the rectangular grids tried: up to MaxRows rows of up to MaxCols cells
MaxRows == 3
MaxWidth == 3

\* the ragged grids tried: up to RaggedRows rows, each of up to RaggedCols
\* cells
RaggedRows == 2
RaggedCols == 2

\* the wide grids tried: WideRows rows of WideCols cells each
WideRows == 2
WideCols == 4

\* tables_to_dataframe: the most tables in a document, and the most data
\* rows of the fully populated tables tried
MaxTables == 2
MaxDataRows == 9

\* the grids with decorative rows tried: up to MaxLeading blank rows above
\* up to MaxFullRows fully populated rows
MaxLeading == 2
MaxFullRows == 6

\* the broad grids tried: a header and one data row of BroadCols cells
BroadCols == 8

\* the sparse grids tried: one filled cell per row, up to SparseExtra
\* columns more than the cap of the secondary heuristic, up to SparseExtra
\* rows more than columns
SparseExtra == 1

\* _format_text: the longest page text and the most pages
MaxText == 5
MaxPages == 2

\* main.py: the PDF files a user uploads, and the most calls of one handler
\* suspended at the same time
MaxFiles == 2
MaxCalls == 2

----------------------------------------------------------------------------
(* Text and cells *)

\* Python's None, as a cell
NONE == <<"None">>

\* Python's None, as the value of a global of main.py
None == 0

\* the characters str.strip() removes
Whitespace == {" ", "\t", "\n"}

RECURSIVE LStrip(_)
LStrip(s) ==
    IF s = <<>> THEN s
    ELSE IF Head(s) \in Whitespace THEN LStrip(Tail(s)) ELSE s

RECURSIVE RStrip(_)
RStrip(s) ==
    IF s = <<>> THEN s
    ELSE IF s[Len(s)] \in Whitespace THEN RStrip(SubSeq(s, 1, Len(s) - 1)) ELSE s

\* str.strip()
Strip(s) == RStrip(LStrip(s))

Digits == <<"0", "1", "2", "3", "4", "5", "6", "7", "8", "9">>

\* str(n) of a natural number
RECURSIVE Str(_)
Str(n) ==
    IF n < 10 THEN <<Digits[n + 1]>>
    ELSE Str(n \div 10) \o <<Digits[(n % 10) + 1]>>

\* `cell is not None and str(cell).strip()`
NonEmpty(cell) == cell # NONE /\ Strip(cell) # <<>>

SeqUpTo(S, n) == UNION {[1..k -> S] : k \in 0..n}

Range(s) == {s[i] : i \in DOMAIN s}

NoDuplicates(s) == \A i, j \in DOMAIN s : s[i] = s[j] => i = j

----------------------------------------------------------------------------
(* _make_unique_columns *)

\* the name a header cell stands for: None becomes '', text is trimmed
ColumnName(cell) == IF cell # NONE THEN Strip(cell) ELSE <<>>

\* the suffixed name of the n-th repetition of col
Suffixed(col, n) == col \o <<"_">> \o Str(n)

\* the loop of _make_unique_columns over the cells still to handle,
\* with the dict `seen` and the list `result` built so far
RECURSIVE make_unique_loop(_, _, _)
make_unique_loop(cols, seen, res) ==
    IF cols = <<>> THEN res
    ELSE LET col == ColumnName(Head(cols)) IN
         IF col \in DOMAIN seen
         THEN make_unique_loop(Tail(cols),
                               [seen EXCEPT ![col] = @ + 1],
                               Append(res, Suffixed(col, seen[col] + 1)))
         ELSE make_unique_loop(Tail(cols),
                               [c \in DOMAIN seen \cup {col} |->
                                    IF c = col THEN 0 ELSE seen[c]],
                               Append(res, col))

make_unique_columns(cols) == make_unique_loop(cols, <<>>, <<>>)

\* header cells: absent, blank, plain names, a name with surrounding
\* whitespace, and a name that already has the form of a suffixed one
HeaderCells == {NONE, <<>>, <<"N">>, <<"T">>, <<" ", "N">>, <<"N", "_", "1">>}

HeaderInputs == SeqUpTo(HeaderCells, MaxHeader)

----------------------------------------------------------------------------
(* Grids.  A grid is a sequence of rows, a row a sequence of cells.  The   *)
(* source indexes rows and columns from 0; the model keeps those indices   *)
(* and reads row r of g as g[r + 1].                                        *)

\* _count_non_empty_cells
count_non_empty_cells(row) == Cardinality({i \in DOMAIN row : NonEmpty(row[i])})

\* _get_non_empty_indices, as the set of the (0-based) indices
get_non_empty_indices(row) == {i - 1 : i \in {j \in DOMAIN row : NonEmpty(row[j])}}

Max(S) == CHOOSE m \in S : \A x \in S : x <= m
Min(S) == CHOOSE m \in S : \A x \in S : m <= x

\* max(len(row) for row in rows)
MaxCols(rows) == Max({Len(rows[r]) : r \in DOMAIN rows})

\* rows[k:], k a 0-based index
SliceFrom(rows, k) == SubSeq(rows, k + 1, Len(rows))

\* sorted(S) for a set of integers: the k-th element has k-1 smaller ones
Sorted(S) ==
    [k \in 1..Cardinality(S) |->
        CHOOSE x \in S : Cardinality({y \in S : y < x}) = k - 1]

\* the per-column counts of non-empty cells over rows, for columns 0..width-1
ColumnCounts(rows, width) ==
    [i \in 0..(width - 1) |->
        Cardinality({r \in DOMAIN rows :
                        i < Len(rows[r]) /\ NonEmpty(rows[r][i + 1])})]

\* [(usage, i) for i in S] sorted with reverse=True, as the list of the i:
\* by descending count, and among equal counts by descending index
RankedDescending(S, usage) ==
    [k \in 1..Cardinality(S) |->
        CHOOSE i \in S :
            Cardinality({j \in S : \/ usage[j] > usage[i]
                                   \/ (usage[j] = usage[i] /\ j > i)}) = k - 1]

\* s[:k]
Take(s, k) == SubSeq(s, 1, IF k < Len(s) THEN k ELSE Len(s))

----------------------------------------------------------------------------
(* _find_table_structure *)

\* the columns under-retention is measured against and the cap of the
\* secondary heuristic of _clean_table
MinRetainedCols == 3
FallbackColumnCap == 20

\* `return h, None`
NoFilter(h) == [header_idx |-> h, has_filter |-> FALSE, cols_to_keep |-> <<>>]

\* the non-empty counts of the rows with at least 2 non-empty cells
NonEmptyCounts(tbl) ==
    {count_non_empty_cells(tbl[r]) : r \in
        {q \in DOMAIN tbl : count_non_empty_cells(tbl[q]) >= 2}}

\* Counter(non_empty_counts)[c]
CountFreq(tbl, c) ==
    Cardinality({r \in DOMAIN tbl : count_non_empty_cells(tbl[r]) = c})

\* max(count_freq.keys(), key=lambda x: (count_freq[x], x))
TargetColCount(tbl) ==
    CHOOSE c \in NonEmptyCounts(tbl) :
        \A d \in NonEmptyCounts(tbl) :
            \/ CountFreq(tbl, d) < CountFreq(tbl, c)
            \/ (CountFreq(tbl, d) = CountFreq(tbl, c) /\ d <= c)

\* non_empty >= max(2, target_col_count * 0.5)
MatchesStructure(row, target) ==
    /\ count_non_empty_cells(row) >= 2
    /\ 2 * count_non_empty_cells(row) >= target

\* HeaderIdx with the scan's `break` left out: the last matching row wins
HeaderIdx_no_break(tbl) ==
    LET target == TargetColCount(tbl)
        hits == {r \in DOMAIN tbl : MatchesStructure(tbl[r], target)}
    IN IF hits = {} THEN 0 ELSE Max(hits) - 1

\* HeaderIdx with the scan left out: header_idx stays at its initial 0
HeaderIdx_unscanned(tbl) == 0

\* the first row that matches the structure, 0 if none does
HeaderIdx(tbl) ==
    LET target == TargetColCount(tbl)
        hits == {r \in DOMAIN tbl : MatchesStructure(tbl[r], target)}
    IN IF hits = {} THEN 0 ELSE Min(hits) - 1

\* usage >= max(1, len(data_rows) * 0.15)
MeetsUsageThreshold(usage, n_data) == usage >= 1 /\ 100 * usage >= 15 * n_data

\* the columns kept by the usage threshold and the header add-back
ThresholdCols(tbl, header_idx) ==
    LET data_rows == SliceFrom(tbl, header_idx + 1)
        col_usage == ColumnCounts(data_rows, MaxCols(tbl))
        by_usage  == {i \in DOMAIN col_usage :
                         MeetsUsageThreshold(col_usage[i], Len(data_rows))}
        by_header == {i \in get_non_empty_indices(tbl[header_idx + 1]) :
                         i \in DOMAIN col_usage /\ col_usage[i] > 0}
    IN by_usage \cup by_header

\* GuardCols with max_cols // 2 in place of max(3, max_cols // 2)
GuardCols_half(tbl, header_idx) ==
    LET data_rows == SliceFrom(tbl, header_idx + 1)
        max_cols  == MaxCols(tbl)
        col_usage == ColumnCounts(data_rows, max_cols)
    IN Range(Take(RankedDescending(DOMAIN col_usage, col_usage), max_cols \div 2))
           \cup get_non_empty_indices(tbl[header_idx + 1])

\* the columns kept when too few were retained: the top columns by usage
\* and every non-blank header column
GuardCols(tbl, header_idx) ==
    LET data_rows == SliceFrom(tbl, header_idx + 1)
        max_cols  == MaxCols(tbl)
        col_usage == ColumnCounts(data_rows, max_cols)
        k         == IF max_cols \div 2 > MinRetainedCols
                     THEN max_cols \div 2 ELSE MinRetainedCols
    IN Range(Take(RankedDescending(DOMAIN col_usage, col_usage), k))
           \cup get_non_empty_indices(tbl[header_idx + 1])

\* the columns to keep, given the header row: those of the threshold and
\* the add-back, unless the under-retention guard replaces them
RetainedCols(tbl, header_idx) ==
    CHOOSE final \in
        {IF Cardinality(kept) < MinRetainedCols /\ MaxCols(tbl) > MinRetainedCols
         THEN GuardCols(tbl, header_idx)
         ELSE kept : kept \in {ThresholdCols(tbl, header_idx)}} : TRUE

\* the part of _find_table_structure after the header row is found
StructureBelow(tbl, header_idx) ==
    IF header_idx + 1 >= Len(tbl) THEN NoFilter(header_idx)
    ELSE CHOOSE s \in
            {[header_idx |-> header_idx, has_filter |-> TRUE,
              cols_to_keep |-> Sorted(final)] :
                  final \in {RetainedCols(tbl, header_idx)}} : TRUE

find_table_structure(tbl) ==
    IF Len(tbl) < 2 THEN NoFilter(0)
    ELSE IF NonEmptyCounts(tbl) = {} THEN NoFilter(0)
    ELSE CHOOSE s \in
            {StructureBelow(tbl, header_idx) : header_idx \in {HeaderIdx(tbl)}} : TRUE

----------------------------------------------------------------------------
(* _clean_table *)

\* MeetsFillThreshold without the 20%: any data qualifies
MeetsFillThreshold_any(count, num_rows) == count >= 1

\* count >= max(1, num_rows * 0.2)
MeetsFillThreshold(count, num_rows) == count >= 1 /\ 5 * count >= num_rows

\* the secondary heuristic: the columns to keep when the detector gave no
\* usable filter, as the list the code builds
FallbackCols(rows) ==
    LET col_counts == ColumnCounts(rows, MaxCols(rows))
        filled     == {i \in DOMAIN col_counts :
                          MeetsFillThreshold(col_counts[i], Len(rows))}
        any_data   == {i \in DOMAIN col_counts : col_counts[i] > 0}
    IN IF filled # {} THEN Sorted(filled)
       ELSE IF Cardinality(any_data) > FallbackColumnCap
            THEN Take(RankedDescending(any_data, col_counts), FallbackColumnCap)
            ELSE Sorted(any_data)

\* cols_to_keep as _clean_table has it at line 188, given the sliced rows
\* and what the detector returned (empty when it returns without projecting)
ColsToApply(cleaned_table, s) ==
    IF s.has_filter /\ s.cols_to_keep # <<>> THEN s.cols_to_keep
    ELSE IF MaxCols(cleaned_table) = 0 THEN <<>>
    ELSE FallbackCols(cleaned_table)

\* ProjectRow reading one cell to the right of each kept column
ProjectRow_shifted(row, cols) ==
    [k \in DOMAIN cols |->
        IF cols[k] + 1 < Len(row) THEN row[cols[k] + 2] ELSE NONE]

\* ProjectRow without the `else` that pads a short row with None
ProjectRow_unpadded(row, cols) ==
    LET inside == SelectSeq(cols, LAMBDA c : c < Len(row))
    IN [k \in DOMAIN inside |-> row[inside[k] + 1]]

\* the projection of a row onto the kept columns, None past its end
ProjectRow(row, cols) ==
    [k \in DOMAIN cols |-> IF cols[k] < Len(row) THEN row[cols[k] + 1] ELSE NONE]

ProjectRows(rows, cols) == [r \in DOMAIN rows |-> ProjectRow(rows[r], cols)]

\* lines 188-203: the sliced grid itself when no column is kept, else its
\* projection
Filtered(cleaned_table, cols_to_keep) ==
    IF cols_to_keep = <<>> THEN cleaned_table
    ELSE ProjectRows(cleaned_table, cols_to_keep)

\* the part of _clean_table after the slice
CleanSliced(tbl, cleaned_table, s) ==
    IF cleaned_table = <<>> THEN tbl
    ELSE IF s.has_filter /\ s.cols_to_keep # <<>>
         THEN Filtered(cleaned_table, s.cols_to_keep)
         ELSE IF MaxCols(cleaned_table) = 0 THEN cleaned_table
              ELSE CHOOSE out \in
                      {Filtered(cleaned_table, cols) :
                           cols \in {FallbackCols(cleaned_table)}} : TRUE

\* the part of _clean_table after the call of _find_table_structure
CleanWith(tbl, s) ==
    CHOOSE out \in
        {CleanSliced(tbl, cleaned_table, s) :
             cleaned_table \in {SliceFrom(tbl, s.header_idx)}} : TRUE

clean_table(tbl) ==
    IF tbl = <<>> THEN tbl
    ELSE CHOOSE out \in {CleanWith(tbl, s) : s \in {find_table_structure(tbl)}} : TRUE


----------------------------------------------------------------------------
(* Datasets (pandas DataFrames): the column names in order, and the rows,  *)
(* each with one value per column.  A missing value (None, NaN) is NONE.   *)

\* pd.DataFrame()
EmptyFrame == [columns |-> <<>>, rows |-> <<>>]

\* pd.DataFrame(columns=names)
HeaderOnlyFrame(names) == [columns |-> names, rows |-> <<>>]

\* pd.DataFrame(data, columns=names) raises unless the longest row of data
\* has one value per name
ConstructionRaises(data, names) == data # <<>> /\ MaxCols(data) # Len(names)

\* pd.DataFrame(data, columns=names): shorter rows are filled with NaN
DataFrame(data, names) ==
    CHOOSE df \in
        {[columns |-> n,
          rows |-> [r \in DOMAIN d |->
                       [c \in DOMAIN n |-> IF c <= Len(d[r]) THEN d[r][c] ELSE NONE]]] :
              d \in {data}, n \in {names}} : TRUE

\* the positions of the frame's columns, in order
Positions(df) == [c \in DOMAIN df.columns |-> c]

\* the frame restricted to the columns at the positions pos
KeepColumns(df, pos) ==
    CHOOSE out \in
        {[columns |-> [k \in DOMAIN p |-> d.columns[p[k]]],
          rows |-> [r \in DOMAIN d.rows |-> [k \in DOMAIN p |-> d.rows[r][p[k]]]]] :
              d \in {df}, p \in {pos}} : TRUE

\* the number of non-null values of the column at position c
NonNullCount(df, c) == Cardinality({r \in DOMAIN df.rows : df.rows[r][c] # NONE})

\* the number of values of the column at position c that are neither null
\* nor blank after trimming
NonBlankCount(df, c) == Cardinality({r \in DOMAIN df.rows : NonEmpty(df.rows[r][c])})

\* df.dropna(how='all')
DropNaRows(df) ==
    [df EXCEPT !.rows =
        SelectSeq(df.rows, LAMBDA row : \E c \in DOMAIN row : row[c] # NONE)]

\* df.dropna(axis=1, how='all')
DropNaColumns(df) ==
    KeepColumns(df, SelectSeq(Positions(df), LAMBDA c : NonNullCount(df, c) > 0))

\* df.dropna(axis=1, thresh=t)
DropNaThresh(df, t) ==
    KeepColumns(df, SelectSeq(Positions(df), LAMBDA c : NonNullCount(df, c) >= t))

\* df.empty
Empty(df) == df.rows = <<>> \/ df.columns = <<>>

----------------------------------------------------------------------------
(* tables_to_dataframe: the body of the loop over the extracted tables *)

\* what one pass of the loop body does with a grid: `how` tells the path
\* taken, `frames` holds the dataset appended to all_tables, if any
Outcome(how, frames) == [how |-> how, frames |-> frames]

\* the dataset built from a header row and the rows under it, and whether
\* it is appended
BuildDataset(header, body) ==
    CHOOSE out \in
        {DropNaColumns(df) :
             df \in {DropNaRows(DataFrame(body, make_unique_columns(header)))}} : TRUE

\* the inner try of the except branch: the unmodified grid
RecoverFromOriginal(tbl) ==
    IF Len(tbl) > 1
    THEN IF ConstructionRaises(Tail(tbl), make_unique_columns(Head(tbl)))
         THEN Outcome("dropped", <<>>)
         ELSE LET df == BuildDataset(Head(tbl), Tail(tbl)) IN
              IF ~Empty(df) THEN Outcome("recovered", <<df>>)
              ELSE Outcome("recovered_empty", <<>>)
    ELSE Outcome("recovered_empty", <<>>)

\* [c for c in columns if c and str(c).strip()]
NonBlankNames(names) == SelectSeq(names, LAMBDA c : Strip(c) # <<>>)

\* `if not df.empty and len(df.columns) > 0: all_tables.append(df)`
AppendIfData(df) ==
    IF ~Empty(df) /\ Len(df.columns) > 0
    THEN Outcome("data", <<df>>)
    ELSE Outcome("no_data", <<>>)

\* the try block after the call of _clean_table
HandleCleaned(tbl, c0) ==
    LET cl == IF c0 = <<>> THEN tbl ELSE c0 IN
    IF Len(cl) > 1
    THEN IF ConstructionRaises(Tail(cl), make_unique_columns(Head(cl)))
         THEN RecoverFromOriginal(tbl)
         ELSE CHOOSE out \in
                 {AppendIfData(df) : df \in {BuildDataset(Head(cl), Tail(cl))}} : TRUE
    ELSE LET names == NonBlankNames(make_unique_columns(Head(cl))) IN
         IF Len(names) > 0
         THEN Outcome("header_only", <<HeaderOnlyFrame(names)>>)
         ELSE Outcome("no_data", <<>>)

HandleTable(tbl) ==
    IF tbl = <<>> THEN Outcome("skipped", <<>>)
    ELSE CHOOSE out \in {HandleCleaned(tbl, c0) : c0 \in {clean_table(tbl)}} : TRUE

----------------------------------------------------------------------------
(* tables_to_dataframe: the merge and the final cleanup *)

\* the result of a step that may raise
Returned(df) == [raised |-> FALSE, df |-> df]
Raised == [raised |-> TRUE, df |-> EmptyFrame]

\* the names of s without repetitions, in the order of first appearance
FirstSeen(s) ==
    LET firsts == SelectSeq([i \in DOMAIN s |-> i],
                            LAMBDA i : \A j \in 1..(i - 1) : s[j] # s[i])
    IN [k \in DOMAIN firsts |-> s[firsts[k]]]

RECURSIVE Flatten(_)
Flatten(ss) == IF ss = <<>> THEN <<>> ELSE Head(ss) \o Flatten(Tail(ss))

\* the characters of the names tried, in code-point order
Alphabet == <<" ", "0", "1", "2", "3", "4", "5", "6", "7", "8", "9",
              "A", "B", "C", "D", "N", "_", "e", "n", "o">>

CodePoint(ch) == CHOOSE i \in DOMAIN Alphabet : Alphabet[i] = ch

\* a < b for two names, as Python compares strings
RECURSIVE NameBefore(_, _)
NameBefore(a, b) ==
    IF b = <<>> THEN FALSE
    ELSE IF a = <<>> THEN TRUE
    ELSE IF Head(a) = Head(b) THEN NameBefore(Tail(a), Tail(b))
    ELSE CodePoint(Head(a)) < CodePoint(Head(b))

RECURSIVE SortedNames(_)
SortedNames(S) ==
    IF S = {} THEN <<>>
    ELSE LET least == CHOOSE a \in S : \A b \in S : a = b \/ NameBefore(a, b)
         IN <<least>> \o SortedNames(S \ {least})

\* UnionColumns as pd.concat(..., sort=True) gives it: the union sorted
UnionColumns_sorted(frames) ==
    IF \A i \in DOMAIN frames : frames[i].columns = frames[1].columns
    THEN frames[1].columns
    ELSE SortedNames(UNION {Range(frames[i].columns) : i \in DOMAIN frames})

\* UnionColumns as pd.concat(..., join='inner') gives it: the names that
\* every frame has
UnionColumns_inner(frames) ==
    SelectSeq(frames[1].columns,
              LAMBDA c : \A i \in DOMAIN frames : c \in Range(frames[i].columns))

\* the columns of the concatenation: the frames' own index when they all
\* have the same one, else the union of their names in first-seen order
UnionColumns(frames) ==
    IF \A i \in DOMAIN frames : frames[i].columns = frames[1].columns
    THEN frames[1].columns
    ELSE CHOOSE names \in
            {FirstSeen(all) :
                 all \in {Flatten([i \in DOMAIN frames |-> frames[i].columns])}} : TRUE

\* a frame's rows laid out under the columns `names`: NaN where the frame
\* has no such column
Reindexed(df, names) ==
    IF df.columns = names THEN df.rows
    ELSE [r \in DOMAIN df.rows |->
            [k \in DOMAIN names |->
                IF names[k] \in Range(df.columns)
                THEN df.rows[r][CHOOSE c \in DOMAIN df.columns : df.columns[c] = names[k]]
                ELSE NONE]]

\* the concatenation under the combined columns `names`
ConcatUnder(frames, names) ==
    IF \E i \in DOMAIN frames :
          frames[i].columns # names /\ ~NoDuplicates(frames[i].columns)
    THEN Raised
    ELSE Returned([columns |-> names,
                   rows |-> Flatten([i \in DOMAIN frames |-> Reindexed(frames[i], names)])])

\* pd.concat(frames, ignore_index=True, axis=0, join='outer'): a frame whose
\* columns differ from the combined ones is reindexed, which raises when
\* its own column names are not unique
Concat(frames) ==
    CHOOSE res \in {ConcatUnder(frames, names) : names \in {UnionColumns(frames)}} : TRUE

\* max(1, int(len(merged_df) * 0.2))
FillThresh(n_rows) == IF n_rows \div 5 > 1 THEN n_rows \div 5 ELSE 1

\* the loop that drops the columns holding only null or blank values;
\* merged_df[col] of a repeated name is a frame, on which the test raises
DropBlankColumns(df) ==
    IF ~NoDuplicates(df.columns) THEN Raised
    ELSE Returned(KeepColumns(df,
             SelectSeq(Positions(df), LAMBDA c : NonBlankCount(df, c) > 0)))

\* col_str == '' or col_str == 'None'
BlankName(name) == Strip(name) = <<>> \/ Strip(name) = <<"N", "o", "n", "e">>

\* FewValues with the 20% of the fill-rate cut in place of the 30%
FewValues_fifth(df, c) == 5 * NonBlankCount(df, c) < Len(df.rows)

\* non_empty < len(merged_df) * 0.3
FewValues(df, c) == 10 * NonBlankCount(df, c) < 3 * Len(df.rows)

\* the columns with an empty name and little data are dropped
DropBlankNamed(df) ==
    KeepColumns(df, SelectSeq(Positions(df),
                LAMBDA c : ~(BlankName(df.columns[c]) /\ FewValues(df, c))))

\* PruneMerged with the results of dropna and drop not assigned back
PruneMerged_unassigned(df) ==
    IF ~NoDuplicates(df.columns) THEN Raised ELSE Returned(df)

\* the final cleanup of the merged dataset
PruneMerged(df) ==
    CHOOSE res \in
        {IF kept.raised THEN Raised ELSE Returned(DropBlankNamed(kept.df)) :
             kept \in {DropBlankColumns(filled) :
                           filled \in {DropNaThresh(df, FillThresh(Len(df.rows)))}}} : TRUE

\* what tables_to_dataframe does once the loop has collected all_tables
MergeTables(frames) ==
    IF frames = <<>> THEN Returned(EmptyFrame)
    ELSE CHOOSE res \in
            {IF cat.raised THEN Raised ELSE PruneMerged(cat.df) :
                 cat \in {Concat(frames)}} : TRUE

----------------------------------------------------------------------------
(* _format_text *)

\* '=' * 60
RuleWidth == 60
Rule == [i \in 1..RuleWidth |-> "="]

\* "Page N of M"
PageLine(n, m) ==
    <<"P", "a", "g", "e", " ">> \o Str(n) \o <<" ", "o", "f", " ">> \o Str(m)

\* the positions of s, in order
Indices(s) == [i \in DOMAIN s |-> i]

\* the characters of s at the positions pos
At(s, pos) == [k \in DOMAIN pos |-> s[pos[k]]]

\* re.sub(r'\n{3,}', '\n\n', s): of a run of newlines the first two stay
CollapseNewlines(s) ==
    CHOOSE out \in
        {At(s, pos) :
            pos \in {SelectSeq(Indices(s),
                        LAMBDA i : ~(/\ i > 2
                                     /\ s[i] = "\n"
                                     /\ s[i - 1] = "\n"
                                     /\ s[i - 2] = "\n"))}} : TRUE

Blanks == {" ", "\t"}

\* re.sub(r'[ \t]+', ' ', s): a run of spaces and tabs becomes one space
CollapseSpaces(s) ==
    CHOOSE out \in
        {[k \in DOMAIN pos |-> IF s[pos[k]] \in Blanks THEN " " ELSE s[pos[k]]] :
            pos \in {SelectSeq(Indices(s),
                        LAMBDA i : ~(/\ i > 1
                                     /\ s[i] \in Blanks
                                     /\ s[i - 1] \in Blanks))}} : TRUE

\* the page separator of a document of several pages
PageHeader(n, m) ==
    <<"\n">> \o Rule \o <<"\n">> \o PageLine(n, m) \o <<"\n">> \o Rule \o <<"\n", "\n">>

\* s.split('\n'), given the positions nl of the newlines of s
SplitAt(s, nl) ==
    [k \in 1..(Len(nl) + 1) |->
        SubSeq(s,
               IF k = 1 THEN 1 ELSE nl[k - 1] + 1,
               IF k = Len(nl) + 1 THEN Len(s) ELSE nl[k] - 1)]

SplitLines(s) ==
    CHOOSE lines \in
        {SplitAt(s, nl) :
            nl \in {SelectSeq(Indices(s), LAMBDA i : s[i] = "\n")}} : TRUE

\* the body of the loop with a blank line appended whatever came before
AppendLine_always(formatted_lines, line) == Append(formatted_lines, line)

\* the body of the loop over the lines: `line` is the trimmed line
AppendLine(formatted_lines, line) ==
    IF line # <<>> THEN Append(formatted_lines, line)
    ELSE IF formatted_lines # <<>> /\ formatted_lines[Len(formatted_lines)] # <<>>
         THEN Append(formatted_lines, <<>>)
         ELSE formatted_lines

\* the loop over lines[i..], formatted_lines being what is collected so far
RECURSIVE FormatLines(_, _, _)
FormatLines(lines, i, formatted_lines) ==
    IF i > Len(lines) THEN formatted_lines
    ELSE CHOOSE out \in
            {FormatLines(lines, i + 1, next) :
                next \in {AppendLine(formatted_lines, Strip(lines[i]))}} : TRUE

\* '\n'.join(lines)
RECURSIVE Join(_, _)
Join(lines, i) ==
    IF i > Len(lines) THEN <<>>
    ELSE IF i = Len(lines) THEN lines[i]
    ELSE lines[i] \o <<"\n">> \o Join(lines, i + 1)

\* the statements after the whitespace is normalised
Reflow(txt) ==
    CHOOSE out \in
        {Join(formatted_lines, 1) :
            formatted_lines \in
                {FormatLines(lines, 1, <<>>) : lines \in {SplitLines(txt)}}} : TRUE

WithHeader(txt, n, m) == IF m > 1 THEN PageHeader(n, m) \o txt ELSE txt

format_text(txt, n, m) ==
    IF txt = <<>> THEN <<>>
    ELSE CHOOSE out \in
            {Reflow(WithHeader(t, n, m)) :
                t \in {CollapseSpaces(c) : c \in {CollapseNewlines(txt)}}} : TRUE

----------------------------------------------------------------------------
(* The harnesses share the variables; each leaves the others idle. *)

ColsIdle ==
    /\ columns = <<>> /\ result = <<>> /\ cols_pc = "idle"

CleanIdle ==
    /\ table = <<>> /\ structure = <<>> /\ cleaned = <<>>
    /\ recleaned = <<>> /\ kept_cols = <<>> /\ clean_pc = "idle"

DfIdle ==
    /\ doc = <<>> /\ next_table = 1 /\ all_tables = <<>> /\ trail = <<>>
    /\ merged = <<>> /\ df_pc = "idle"

TextIdle ==
    /\ text = <<>> /\ page_num = 1 /\ total_pages = 1
    /\ formatted = <<>> /\ text_pc = "idle"

\* main.py after import: lines 78-81, and the buttons as the page builds them
AppIdle ==
    /\ uploaded_file_bytes = None /\ uploaded_filename = None
    /\ processed_dataframe = None /\ processed_text = None
    /\ download_button = FALSE /\ process_button = FALSE
    /\ reading = {} /\ running = {} /\ delivered = <<>>

ColsInit ==
    /\ columns \in HeaderInputs
    /\ result = <<>>
    /\ cols_pc = "call"
    /\ CleanIdle /\ DfIdle /\ TextIdle /\ AppIdle

MakeUnique ==
    /\ cols_pc = "call"
    /\ result' = make_unique_columns(columns)
    /\ cols_pc' = "done"
    /\ UNCHANGED <<columns, clean_vars, df_vars, text_vars, app_vars>>

ColsNext == MakeUnique

SpecCols == ColsInit /\ [][ColsNext]_vars

\* C1: the column names produced by _make_unique_columns contain no
\* duplicates, for every list of header cells, also one that already holds
\* a suffixed form such as ["Name","Name","Name_1"].
UniqueColumnNames == cols_pc = "done" => NoDuplicates(result)

\* the scenario of the specification: ["Name","Total","Name"] becomes
\* ["Name","Total","Name_1"]
C1_Scenario ==
    (cols_pc = "done" /\ columns = << <<"N">>, <<"T">>, <<"N">> >>)
        => result = << <<"N">>, <<"T">>, <<"N", "_", "1">> >>

----------------------------------------------------------------------------
(* The grids _clean_table is applied to *)

\* rectangular grids of absent and filled cells
RectGrids ==
    UNION {[1..r -> [1..w -> {NONE, <<"x">>}]] : r \in 0..MaxRows, w \in 0..MaxWidth}

\* ragged grids, with whitespace-only cells too
RaggedGrids ==
    SeqUpTo(SeqUpTo({NONE, <<" ">>, <<"x">>}, RaggedCols), RaggedRows)

\* grids wider than the 3 columns the under-retention guard asks for
WideGrids == [1..WideRows -> [1..WideCols -> {NONE, <<"x">>}]]

\* a row of w blank ('') cells and a row of w filled cells
BlankRow(w) == [c \in 1..w |-> <<>>]
FullRow(w) == [c \in 1..w |-> <<"x">>]

\* k blank rows above n fully populated rows of 3 columns
LeadingBlankGrid(k, n) ==
    [r \in 1..(k + n) |-> IF r <= k THEN BlankRow(3) ELSE FullRow(3)]

LeadingBlankGrids ==
    {LeadingBlankGrid(k, n) : k \in 1..MaxLeading, n \in 4..MaxFullRows}

\* grids broad enough for half their width to exceed 3: a header naming
\* the first two columns above one data row of any filling
BroadGrids ==
    {<<[c \in 1..BroadCols |-> IF c <= 2 THEN <<"x">> ELSE NONE], data>> :
        data \in [1..BroadCols -> {NONE, <<"x">>}]}

\* n rows of w cells, row r filled only in column (r - 1 + shift) mod w
SparseGrid(w, n, shift) ==
    [r \in 1..n |->
        [c \in 1..w |-> IF c - 1 = (r - 1 + shift) % w THEN <<"x">> ELSE NONE]]

\* grids with as many occupied columns as the cap of the secondary
\* heuristic and more, none filled in 20% of the rows
SparseGrids ==
    {SparseGrid(FallbackColumnCap + dw, FallbackColumnCap + dw + dn, shift) :
        dw \in 0..SparseExtra, dn \in 0..SparseExtra, shift \in 0..SparseExtra}

GridInputs ==
    RectGrids \cup RaggedGrids \cup WideGrids \cup LeadingBlankGrids \cup BroadGrids
        \cup SparseGrids

CleanInit ==
    /\ table \in GridInputs
    /\ structure = NoFilter(0)
    /\ cleaned = <<>>
    /\ recleaned = <<>>
    /\ kept_cols = <<>>
    /\ clean_pc = "call"
    /\ ColsIdle /\ DfIdle /\ TextIdle /\ AppIdle

\* cleaned = _clean_table(table): the steps of clean_table, with what the
\* detector returned and the columns projected onto recorded on the way
Clean ==
    /\ clean_pc = "call"
    /\ \E s \in {find_table_structure(table)} :
          /\ structure' = s
          /\ cleaned' = IF table = <<>> THEN table ELSE CleanWith(table, s)
          /\ kept_cols' = IF table = <<>> THEN <<>>
                          ELSE ColsToApply(SliceFrom(table, s.header_idx), s)
    /\ clean_pc' = "cleaned"
    /\ UNCHANGED <<table, recleaned, cols_vars, df_vars, text_vars, app_vars>>

\* recleaned = _clean_table(cleaned)
CleanAgain ==
    /\ clean_pc = "cleaned"
    /\ recleaned' = clean_table(cleaned)
    /\ clean_pc' = "recleaned"
    /\ UNCHANGED <<table, structure, cleaned, kept_cols, cols_vars, df_vars, text_vars,
                   app_vars>>

CleanNext == Clean \/ CleanAgain

SpecClean == CleanInit /\ [][CleanNext]_vars

HasNonEmptyCell(rows) ==
    \E r \in DOMAIN rows : \E c \in DOMAIN rows[r] : NonEmpty(rows[r][c])

Rectangular(rows) == \A r, q \in DOMAIN rows : Len(rows[r]) = Len(rows[q])

\* every row of tbl has the same set S of non-empty column indices
Uniform(tbl) ==
    \A r \in DOMAIN tbl : get_non_empty_indices(tbl[r]) = get_non_empty_indices(tbl[1])

\* C2: cleaning is idempotent: _clean_table(_clean_table(g)) = _clean_table(g)
\* for every grid g.
CleanIdempotent == clean_pc = "recleaned" => recleaned = cleaned

\* C3 as stated: for every grid of at least 2 rows whose rows all have the
\* same set of non-empty column indices, the detector returns header index 0
\* and exactly that set as the retained columns.
UniformStructureAnyWidth ==
    (clean_pc # "call" /\ Len(table) >= 2 /\ Uniform(table))
        => /\ structure.header_idx = 0
           /\ structure.has_filter
           /\ structure.cols_to_keep = Sorted(get_non_empty_indices(table[1]))

\* C7: cleaning never throws away all data: a grid with at least one row
\* cleans to a table with at least one row, and a grid with a non-empty cell
\* cleans to a table with a non-empty cell.
CleanKeepsData ==
    clean_pc # "call" =>
        /\ (Len(table) >= 1 => Len(cleaned) >= 1)
        /\ (HasNonEmptyCell(table) => HasNonEmptyCell(cleaned))

\* C8 as stated: every table _clean_table returns is rectangular, on every
\* path.
CleanedRectangular == clean_pc # "call" => Rectangular(cleaned)

\* C3, amended: for every grid of at least 2 rows whose rows all have the
\* same set S of non-empty column indices, where S has at least 2 indices
\* and either S has at least 3 or the grid is at most 3 columns wide, the
\* detector returns header index 0 and exactly S as the retained columns.
UniformStructure ==
    (/\ clean_pc # "call" /\ Len(table) >= 2 /\ Uniform(table)
     /\ Cardinality(get_non_empty_indices(table[1])) >= 2
     /\ \/ Cardinality(get_non_empty_indices(table[1])) >= MinRetainedCols
        \/ MaxCols(table) <= MinRetainedCols)
        => /\ structure.header_idx = 0
           /\ structure.has_filter
           /\ structure.cols_to_keep = Sorted(get_non_empty_indices(table[1]))

\* a uniform grid of 3 rows with a blank column between its occupied ones
\* has been analysed, and the detector kept exactly the occupied columns
UniformStructureWitness ==
    /\ clean_pc = "cleaned" /\ Len(table) = 3 /\ Uniform(table)
    /\ get_non_empty_indices(table[1]) = {0, 2}
    /\ structure = [header_idx |-> 0, has_filter |-> TRUE, cols_to_keep |-> <<0, 2>>]

\* a grid whose leading row was sliced away and whose blank column was
\* dropped has been cleaned, and data is left
CleanKeepsDataWitness ==
    /\ clean_pc = "cleaned"
    /\ HasNonEmptyCell(table)
    /\ structure.header_idx > 0
    /\ Len(cleaned) < Len(table)
    /\ MaxCols(cleaned) < MaxCols(table)
    /\ HasNonEmptyCell(cleaned)

\* C8, amended: for every grid with at least one non-empty cell the table
\* _clean_table returns is rectangular (rows shorter than a kept column are
\* padded with None); a grid with no non-empty cell is returned as it is,
\* so a ragged one stays ragged.
CleanedRectangularOrUntouched ==
    clean_pc # "call" =>
        /\ (HasNonEmptyCell(table) => Rectangular(cleaned))
        /\ (~HasNonEmptyCell(table) => cleaned = table)

\* a ragged grid has been cleaned, and a row that ended before a kept
\* column was padded
CleanedRectangularWitness ==
    /\ clean_pc = "cleaned"
    /\ ~Rectangular(table)
    /\ HasNonEmptyCell(table)
    /\ Rectangular(cleaned)
    /\ \E r \in DOMAIN cleaned : Len(cleaned[r]) > Len(table[r + structure.header_idx])

----------------------------------------------------------------------------
(* The documents tables_to_dataframe is applied to *)

A == <<"A">>
B == <<"B">>
C == <<"C">>
D == <<"D">>
N == <<"N">>
One == <<"1">>

\* a table with the given header and n data rows, every cell filled
FullTable(header, n) ==
    [i \in 1..(n + 1) |-> IF i = 1 THEN header ELSE [c \in DOMAIN header |-> One]]

FullTables == {FullTable(h, n) : h \in {<<A, B>>, <<B, C>>}, n \in 1..MaxDataRows}

\* header-only tables (with names, with one name, with none), a header that
\* repeats a name beside its suffixed form, a ragged grid of empty cells, a
\* column without data, a data column under a blank and under a "None"
\* header, data rows without data, and a wide sparse table whose blank
\* columns the under-retention guard keeps, and a data column under a blank
\* and under a "None" name between two named ones
SpecialTables ==
    { << <<A, B>> >>,
      << <<A, NONE>> >>,
      << <<NONE, <<" ">>>> >>,
      << <<N, N, <<"N", "_", "1">>>>, <<One, One, One>> >>,
      << <<NONE>>, <<NONE, NONE>> >>,
      << <<A, B>>, <<One, NONE>> >>,
      << <<A, NONE>>, <<One, One>> >>,
      << <<A, <<"N", "o", "n", "e">>>>, <<One, One>> >>,
      << <<A, B>>, <<NONE, NONE>> >>,
      << <<A, B, C, D>>, <<One, <<>>, <<>>, <<>>>> >>,
      << <<A, NONE, B>>, <<One, One, One>> >>,
      << <<A, <<"N", "o", "n", "e">>, B>>, <<One, One, One>> >> }

TablePool == FullTables \cup SpecialTables

DocInputs == UNION {[1..k -> TablePool] : k \in 1..MaxTables}

DfInit ==
    /\ doc \in DocInputs
    /\ next_table = 1
    /\ all_tables = <<>>
    /\ trail = <<>>
    /\ merged = EmptyFrame
    /\ df_pc = "loop"
    /\ ColsIdle /\ CleanIdle /\ TextIdle /\ AppIdle

\* one pass of the loop over the tables: clean, build, recover or drop
HandleNextTable ==
    /\ df_pc = "loop"
    /\ next_table <= Len(doc)
    /\ LET out == HandleTable(doc[next_table]) IN
          /\ all_tables' = all_tables \o out.frames
          /\ trail' = Append(trail, out.how)
    /\ next_table' = next_table + 1
    /\ UNCHANGED <<doc, merged, df_pc, cols_vars, clean_vars, text_vars, app_vars>>

\* after the loop: merge, clean up, return (or raise)
MergeAndReturn ==
    /\ df_pc = "loop"
    /\ next_table > Len(doc)
    /\ LET res == MergeTables(all_tables) IN
          /\ merged' = res.df
          /\ df_pc' = IF res.raised THEN "raised" ELSE "returned"
    /\ UNCHANGED <<doc, next_table, all_tables, trail, cols_vars, clean_vars,
                   text_vars, app_vars>>

DfNext == HandleNextTable \/ MergeAndReturn

SpecMerge == DfInit /\ [][DfNext]_vars

Finished == df_pc \in {"returned", "raised"}

\* the trimmed names of a header row's non-blank cells
HeaderNames(header) ==
    NonBlankNames([c \in DOMAIN header |-> ColumnName(header[c])])

\* C4: a table that consists of a header row only and has at least one
\* non-blank column name yields, as the result of tables_to_dataframe, a
\* zero-row dataset whose schema is exactly those names, and no error.
HeaderOnlyKeepsSchema ==
    (/\ Finished /\ Len(doc) = 1 /\ Len(doc[1]) = 1
     /\ HeaderNames(doc[1][1]) # <<>>)
        => /\ df_pc = "returned"
           /\ merged.rows = <<>>
           /\ merged.columns = HeaderNames(doc[1][1])

\* the document is a table with columns [A,B] and n1 data rows followed by
\* one with columns [B,C] and n2 data rows
TwoTables(n1, n2) ==
    /\ Len(doc) = 2
    /\ doc[1] = FullTable(<<A, B>>, n1)
    /\ doc[2] = FullTable(<<B, C>>, n2)

\* schema [A,B,C]; A is null in the second table's rows, C in the first's
OuterJoined(n1, n2) ==
    /\ df_pc = "returned"
    /\ merged.columns = <<A, B, C>>
    /\ Len(merged.rows) = n1 + n2
    /\ \A r \in 1..n1 : merged.rows[r] = <<One, One, NONE>>
    /\ \A r \in (n1 + 1)..(n1 + n2) : merged.rows[r] = <<NONE, One, One>>

\* C5 as stated: for any numbers of data rows the merge of [A,B] and [B,C]
\* has schema [A,B,C], with A null in the second table's rows and C null in
\* the first's.
MergeTwoAnyRowCounts ==
    \A n1, n2 \in 1..MaxDataRows :
        (Finished /\ TwoTables(n1, n2)) => OuterJoined(n1, n2)

\* C5, amended: the same, provided each of the two tables has at least
\* max(1, floor(0.2 * (n1 + n2))) data rows, so that its own column passes
\* the fill-rate cut of the final cleanup.
MergeTwoBalanced ==
    \A n1, n2 \in 1..MaxDataRows :
        (/\ Finished /\ TwoTables(n1, n2)
         /\ n1 >= FillThresh(n1 + n2) /\ n2 >= FillThresh(n1 + n2))
            => OuterJoined(n1, n2)

\* tables of 2 and of 7 data rows have been merged
MergeTwoWitness == Finished /\ TwoTables(2, 7) /\ OuterJoined(2, 7)

\* the first table's columns in their order, then each later table's new
\* columns in that table's order
RECURSIVE FirstSeenOrder(_)
FirstSeenOrder(frames) ==
    IF frames = <<>> THEN <<>>
    ELSE LET before == FirstSeenOrder(SubSeq(frames, 1, Len(frames) - 1))
         IN before \o SelectSeq(frames[Len(frames)].columns,
                                LAMBDA c : c \notin Range(before))

\* a is b with some elements left out
RECURSIVE IsSubsequence(_, _)
IsSubsequence(a, b) ==
    IF a = <<>> THEN TRUE
    ELSE IF b = <<>> THEN FALSE
    ELSE IF Head(a) = Head(b) THEN IsSubsequence(Tail(a), Tail(b))
    ELSE IsSubsequence(a, Tail(b))

\* C6: the columns of the merged dataset appear in first-seen order: the
\* first table's columns, then each later table's new columns in that
\* table's order, with the pruned columns left out and nothing reordered.
MergeOrderStable ==
    df_pc = "returned" => IsSubsequence(merged.columns, FirstSeenOrder(all_tables))

\* [B,C] merged with [A,B]: A, seen last, comes last
MergeOrderWitness ==
    /\ df_pc = "returned" /\ Len(all_tables) = 2
    /\ all_tables[1].columns = <<B, C>> /\ all_tables[2].columns = <<A, B>>
    /\ merged.columns = <<B, C, A>>

\* C9: a failure while cleaning a grid or building its dataset never leaves
\* tables_to_dataframe: the table is recovered from the original grid or
\* dropped, the other tables' datasets are all merged, and the call returns
\* a dataset.
TableFailed(i) == trail[i] \in {"dropped", "recovered", "recovered_empty"}

RECURSIVE RowTotal(_)
RowTotal(frames) ==
    IF frames = <<>> THEN 0 ELSE Len(Head(frames).rows) + RowTotal(Tail(frames))

FailureContained ==
    (Finished /\ \E i \in DOMAIN trail : TableFailed(i))
        => /\ df_pc = "returned"
           /\ Len(merged.rows) = RowTotal(all_tables)

\* C10: no column of the returned dataset is without a non-null value.
NoNullOnlyColumn ==
    df_pc = "returned" => \A c \in DOMAIN merged.columns : NonNullCount(merged, c) > 0

\* a header-only table brought a column that no data table fills; the
\* merged dataset has rows and that column is gone
NoNullOnlyColumnWitness ==
    /\ df_pc = "returned"
    /\ trail = <<"header_only", "data">>
    /\ merged.rows # <<>>
    /\ \E c \in DOMAIN all_tables[1].columns :
           all_tables[1].columns[c] \notin Range(merged.columns)

----------------------------------------------------------------------------
(* The page texts _format_text is applied to *)

TextChars == {"a", " ", "\t", "\n"}

\* a page text that holds a delimiter block of its own
OwnBlock == Rule \o <<"\n">> \o PageLine(1, 1) \o <<"\n">> \o Rule

TextInputs == SeqUpTo(TextChars, MaxText) \cup {OwnBlock}

TextInit ==
    /\ text \in TextInputs
    /\ total_pages \in 1..MaxPages
    /\ page_num \in 1..total_pages
    /\ formatted = <<>>
    /\ text_pc = "call"
    /\ ColsIdle /\ CleanIdle /\ DfIdle /\ AppIdle

FormatText ==
    /\ text_pc = "call"
    /\ formatted' = format_text(text, page_num, total_pages)
    /\ text_pc' = "done"
    /\ UNCHANGED <<text, page_num, total_pages, cols_vars, clean_vars, df_vars, app_vars>>

TextNext == FormatText

SpecText == TextInit /\ [][TextNext]_vars

Trimmed(line) == Strip(line) = line

AllTrimmed(lines) == \A k \in DOMAIN lines : Trimmed(lines[k])

NoTwoBlankLines(lines) ==
    \A k \in DOMAIN lines :
        (k + 1) \in DOMAIN lines => ~(lines[k] = <<>> /\ lines[k + 1] = <<>>)

\* rule line, "Page n of m", rule line
HasBlock(lines, n, m) ==
    \E k \in DOMAIN lines :
        /\ (k + 2) \in DOMAIN lines
        /\ lines[k] = Rule
        /\ lines[k + 1] = PageLine(n, m)
        /\ lines[k + 2] = Rule

----------------------------------------------------------------------------
(* main.py: the upload, process and download handlers.  A file stands for  *)
(* its name and its bytes; a stored dataset or text is represented by the  *)
(* file whose bytes it was extracted from.                                 *)

PdfFiles == 1..MaxFiles

\* a file whose name does not end in ".pdf"
OtherFile == MaxFiles + 1

Files == PdfFiles \cup {OtherFile}

\* `uploaded_filename.lower().endswith('.pdf')`
EndsWithPdf(name) == name \in PdfFiles

Modes == {"tables", "text"}

\* what the extraction of a suspended call comes back with: a result with
\* data, an empty result, or an exception
Outcomes == {"data", "empty", "raises"}

AppInit == AppIdle /\ ColsIdle /\ CleanIdle /\ DfIdle /\ TextIdle

other_vars == <<cols_vars, clean_vars, df_vars, text_vars>>

\* the except branch of handle_upload
UploadExcept ==
    /\ uploaded_file_bytes' = None
    /\ uploaded_filename' = None
    /\ processed_dataframe' = None
    /\ process_button' = FALSE
    /\ UNCHANGED <<processed_text, download_button>>

\* handle_upload up to its await: the name is stored, the read is pending
UploadBegin(f) ==
    /\ Cardinality(reading) < MaxCalls
    /\ f \notin reading
    /\ uploaded_filename' = f
    /\ reading' = reading \cup {f}
    /\ UNCHANGED <<uploaded_file_bytes, processed_dataframe, processed_text,
                   download_button, process_button, running, delivered, other_vars>>

\* handle_upload after e.file.read() returned.  `processed_text = None` binds
\* a local name: the function declares only uploaded_file_bytes,
\* uploaded_filename and processed_dataframe global.
UploadRead(f) ==
    /\ f \in reading
    /\ reading' = reading \ {f}
    /\ IF uploaded_filename = None
       THEN UploadExcept
       ELSE /\ processed_dataframe' = None
            /\ download_button' = FALSE
            /\ UNCHANGED processed_text
            /\ IF EndsWithPdf(uploaded_filename)
               THEN /\ uploaded_file_bytes' = f
                    /\ process_button' = TRUE
                    /\ UNCHANGED uploaded_filename
               ELSE /\ uploaded_file_bytes' = None
                    /\ uploaded_filename' = None
                    /\ process_button' = FALSE
    /\ UNCHANGED <<running, delivered, other_vars>>

\* handle_upload when e.file.read() raises
UploadFails(f) ==
    /\ f \in reading
    /\ reading' = reading \ {f}
    /\ UploadExcept
    /\ UNCHANGED <<running, delivered, other_vars>>

\* process_pdf up to its await, started by a click on the enabled button;
\* without stored bytes it returns at once and changes nothing
ProcessBegin(mode) ==
    /\ process_button
    /\ uploaded_file_bytes # None
    /\ Cardinality(running) < MaxCalls
    /\ process_button' = FALSE
    /\ download_button' = FALSE
    /\ running' = running \cup {[bytes |-> uploaded_file_bytes, mode |-> mode]}
    /\ UNCHANGED <<uploaded_file_bytes, uploaded_filename, processed_dataframe,
                   processed_text, reading, delivered, other_vars>>

\* process_pdf after run.cpu_bound returned or raised
ProcessResume(call, outcome) ==
    /\ call \in running
    /\ running' = running \ {call}
    /\ process_button' = TRUE
    /\ CASE outcome = "data" ->
              /\ processed_dataframe' = IF call.mode = "tables" THEN call.bytes ELSE None
              /\ processed_text' = IF call.mode = "text" THEN call.bytes ELSE None
              /\ download_button' = TRUE
         [] outcome = "empty" ->
              /\ IF call.mode = "tables"
                 THEN processed_dataframe' = None /\ UNCHANGED processed_text
                 ELSE processed_text' = None /\ UNCHANGED processed_dataframe
              /\ UNCHANGED download_button
         [] outcome = "raises" ->
              /\ processed_dataframe' = None
              /\ processed_text' = None
              /\ download_button' = FALSE
    /\ UNCHANGED <<uploaded_file_bytes, uploaded_filename, reading, delivered,
                   other_vars>>

\* what download_file would convert: the dataset if there is one, else the
\* text
Deliverable ==
    IF processed_dataframe # None THEN processed_dataframe ELSE processed_text

\* download_file, started by a click on the visible button; without a stored
\* result, or without a file name to derive the output name from, nothing is
\* handed to ui.download
DownloadFile ==
    /\ download_button
    /\ Deliverable # None
    /\ uploaded_filename # None
    /\ delivered' = <<[data |-> Deliverable, name |-> uploaded_filename]>>
    /\ UNCHANGED <<uploaded_file_bytes, uploaded_filename, processed_dataframe,
                   processed_text, download_button, process_button, reading,
                   running, other_vars>>

AppNext ==
    \/ \E f \in Files : UploadBegin(f) \/ UploadRead(f) \/ UploadFails(f)
    \/ \E mode \in Modes : ProcessBegin(mode)
    \/ \E call \in running, outcome \in Outcomes : ProcessResume(call, outcome)
    \/ DownloadFile

SpecApp == AppInit /\ [][AppNext]_vars

\* a step in which handle_upload accepts the file it read
UploadAccepted ==
    \E f \in reading :
        /\ reading' = reading \ {f}
        /\ uploaded_file_bytes' = f

\* C12: when handle_upload accepts a new upload, the stored dataset and the
\* stored text of the document processed before are both cleared.
UploadClearsResults ==
    [][UploadAccepted => (processed_dataframe' = None /\ processed_text' = None)]_vars

\* C20: whenever the download button is visible, the stored result was
\* extracted from the bytes of the currently uploaded file, and what
\* download_file delivers is named after the file it was extracted from.
DownloadMatchesUpload ==
    /\ (download_button /\ Deliverable # None) => Deliverable = uploaded_file_bytes
    /\ delivered # <<>> => delivered[1].data = delivered[1].name

----------------------------------------------------------------------------
(* Further properties of _find_table_structure and _clean_table *)

\* C13: when some row has 2 or more non-empty cells, the header index is
\* the index of the first row whose non-empty count is at least
\* max(2, target_column_count * 0.5), and every earlier row has fewer; a
\* blank row above a 3-column header and 5 full rows gives header index 1.
HeaderIsFirstMatch ==
    (clean_pc # "call"
     /\ \E r \in DOMAIN table : count_non_empty_cells(table[r]) >= 2)
    => /\ (structure.header_idx + 1) \in DOMAIN table
       /\ MatchesStructure(table[structure.header_idx + 1], TargetColCount(table))
       /\ \A r \in 1..structure.header_idx :
              ~MatchesStructure(table[r], TargetColCount(table))
       /\ table = LeadingBlankGrid(1, 6) => structure.header_idx = 1

\* decorative rows above the header are skipped
HeaderIsFirstMatchWitness ==
    /\ clean_pc = "cleaned"
    /\ table = LeadingBlankGrid(2, 6)
    /\ structure.header_idx = 2
    /\ structure.has_filter
    /\ Len(cleaned) = 6

\* the usage of the columns over the rows below the header the detector
\* found
DataUsage == ColumnCounts(SliceFrom(table, structure.header_idx + 1), MaxCols(table))

\* S holds k columns of the highest usage: no column outside S is used
\* more than one inside
TopUsed(S, k, usage) ==
    /\ S \subseteq DOMAIN usage
    /\ Cardinality(S) = k
    /\ \A i \in S : \A j \in (DOMAIN usage) \ S : usage[j] <= usage[i]

\* the threshold and the add-back retain too few columns of a wide grid
UnderRetained ==
    /\ clean_pc # "call"
    /\ structure.has_filter
    /\ MaxCols(table) > 3
    /\ Cardinality(ThresholdCols(table, structure.header_idx)) < 3

\* C14: when the threshold and the header add-back retain fewer than 3
\* columns of a grid wider than 3 columns, the filter returned consists of
\* max(3, width // 2) columns of the highest data-row usage and of every
\* non-blank header column, and so has at least 3 column indices.
GuardKeepsTopColumns ==
    UnderRetained =>
        /\ Len(structure.cols_to_keep) >= 3
        /\ \E S \in SUBSET Range(structure.cols_to_keep) :
              /\ TopUsed(S, Max({3, MaxCols(table) \div 2}), DataUsage)
              /\ Range(structure.cols_to_keep)
                   = S \cup get_non_empty_indices(table[structure.header_idx + 1])

\* an 8-column grid whose data row fills one column only, right of the
\* header's two: the guard keeps four columns by usage, three of them
\* without data, and the two header columns
GuardKeepsTopColumnsWitness ==
    /\ UnderRetained
    /\ MaxCols(table) = 8
    /\ Cardinality(ThresholdCols(table, structure.header_idx)) = 1
    /\ structure.cols_to_keep = <<0, 1, 4, 5, 6, 7>>
    /\ DataUsage[4] = 1

\* C15: for a grid of 0 or 1 rows the detector returns header index 0 and
\* no column filter, and _clean_table returns the grid as it is, blank
\* columns included.
ShortGridUnchanged ==
    (clean_pc # "call" /\ Len(table) <= 1)
    => /\ structure = NoFilter(0)
       /\ cleaned = table

----------------------------------------------------------------------------
(* Further properties of the post-merge pruning *)

\* C16: a column is kept in the merged dataset only if its number of
\* non-null cells is at least max(1, rowcount * 0.2), for every row count.
FillRateCut ==
    (df_pc = "returned" /\ merged.rows # <<>>)
    => \A c \in DOMAIN merged.columns :
          /\ NonNullCount(merged, c) >= 1
          /\ 5 * NonNullCount(merged, c) >= Len(merged.rows)

\* the merged dataset after the fill-rate cut and the drop of the columns
\* that hold only blank values
Survivors ==
    CHOOSE df \in
        {DropBlankColumns(filled).df :
            filled \in {DropNaThresh(cat, FillThresh(Len(cat.rows))) :
                            cat \in {Concat(all_tables).df}}} : TRUE

\* the trimmed name is empty or literally "None"
NamedBlank(name) == Strip(name) \in {<<>>, <<"N", "o", "n", "e">>}

\* C17: a column that survived the fill-rate cut is dropped for its name
\* if and only if its trimmed name is empty or "None" and fewer than 30%
\* of the merged rows hold a non-blank value in it.
BlankNameRule ==
    (df_pc = "returned" /\ all_tables # <<>>)
    => \A c \in DOMAIN Survivors.columns :
          (Survivors.columns[c] \notin Range(merged.columns))
          <=> (/\ NamedBlank(Survivors.columns[c])
               /\ 10 * NonBlankCount(Survivors, c) < 3 * Len(Survivors.rows))

\* a blank-named column with a value in 1 of 3 rows is kept, one with a
\* value in 1 of 4 rows is dropped
BlankNameKept ==
    /\ df_pc = "returned"
    /\ Len(merged.rows) = 3
    /\ \E c \in DOMAIN merged.columns :
           merged.columns[c] = <<>> /\ NonBlankCount(merged, c) = 1

BlankNameRuleWitness ==
    /\ df_pc = "returned"
    /\ all_tables # <<>>
    /\ Len(merged.rows) = 4
    /\ \E c \in DOMAIN Survivors.columns :
           /\ Survivors.columns[c] = <<>>
           /\ NonBlankCount(Survivors, c) = 1
           /\ <<>> \notin Range(merged.columns)

----------------------------------------------------------------------------
(* Further properties of the secondary heuristic of _clean_table *)

\* the rows _clean_table(table) works on: those from the header on
Sliced == SliceFrom(table, structure.header_idx)

\* the fill counts of the columns over the sliced rows
FillCounts == ColumnCounts(Sliced, MaxCols(Sliced))

\* the columns filled in at least 20% of the sliced rows, and at least once
WellFilled ==
    {i \in DOMAIN FillCounts :
        FillCounts[i] >= 1 /\ 5 * FillCounts[i] >= Len(Sliced)}

\* the columns with at least one non-empty cell
Occupied == {i \in DOMAIN FillCounts : FillCounts[i] > 0}

\* the detector reported no column filter or an empty one
NoUsableFilter ==
    /\ clean_pc # "call"
    /\ table # <<>>
    /\ ~structure.has_filter \/ structure.cols_to_keep = <<>>
    /\ MaxCols(Sliced) > 0

\* C18: without a usable filter _clean_table keeps exactly the columns
\* filled in at least 20% of the sliced rows (and at least once); only if
\* there is none it keeps the columns with at least one non-empty cell, at
\* most 20 of them, namely 20 of the highest fill counts.
SecondaryHeuristic ==
    NoUsableFilter =>
        /\ NoDuplicates(kept_cols)
        /\ kept_cols # <<>> => cleaned = ProjectRows(Sliced, kept_cols)
        /\ IF WellFilled # {} THEN Range(kept_cols) = WellFilled
           ELSE IF Cardinality(Occupied) <= 20 THEN Range(kept_cols) = Occupied
           ELSE /\ Range(kept_cols) \subseteq Occupied
                /\ TopUsed(Range(kept_cols), 20, FillCounts)

\* 22 rows over 21 occupied columns, one of them filled twice: that one is
\* among the 20 kept and one of the others is not
SecondaryHeuristicWitness ==
    /\ NoUsableFilter
    /\ WellFilled = {}
    /\ Len(table) = 22
    /\ Cardinality(Occupied) = 21
    /\ Len(kept_cols) = 20
    /\ \E c \in Range(kept_cols) : FillCounts[c] = 2
    /\ Len(cleaned[1]) = 20

\* C19: on every path of _clean_table the retained column indices are
\* applied in strictly increasing order, so the cells of a column stay left
\* of those of every retained column to its right.
ColumnOrderKept ==
    clean_pc # "call" =>
        \A a, b \in DOMAIN kept_cols : a < b => kept_cols[a] < kept_cols[b]

====
